---- MODULE Spec2Model ----
(***************************************************************************)
(* Crownstone Homey app: the device driver's command dispatch (cloud       *)
(* first, BLE as fallback, serialised by two module-level flags), the      *)
(* app's login / synchronisation, and the presence flow cards.             *)
(***************************************************************************)
EXTENDS Integers, FiniteSets, Sequences, TLC

(* ------------------------------ bounds -------------------------------- *)

\* number of capability-listener invocations (onoff or dim) issued in a run
MaxCalls == 2

\* number of paired Crownstone devices
NumDevices == 2

\* how many of them (the first ones) are dimmable: getData().dimmed
NumDimmable == 1

\* number of setSettings calls made from the settings page in a run
MaxSettings == 2

\* getCurrentLocation calls made in a run
MaxPolls == 2

\* times the user changes location in the cloud in a run
MaxChanges == 2

\* loginToEventServer calls made in a run: the one of onInit and one for
\* every 'set' event of the settings
MaxLogins == 3

\* listener invocations in a run of the one-device scenario
MaxInterplayCalls == 3

Calls == 1..MaxCalls

Devices == 1..NumDevices

(* --------------------------- value domains ---------------------------- *)

\* The dim capability is a fraction in [0,1]; it is kept as <<num, den>>.
DimValues == { <<0, 1>>, <<1, 20>>, <<1, 2>>, <<1, 1>> }

KeyTypes == { "ADMIN_KEY", "MEMBER_KEY", "BASIC_KEY" }

\* cloud.sphere(id).keys() returns the keys the user has access to
KeyResponses == { KeyTypes, { "BASIC_KEY" } }

FromInt(n) == <<n, 1>>

Times(f, n) == <<f[1] * n, f[2]>>

GreaterThanInt(f, n) == f[1] > n * f[2]

LessThanInt(f, n) == f[1] < n * f[2]

SameNumber(f, g) == f[1] * g[2] = g[1] * f[2]

(* ------------------------------- state -------------------------------- *)

VARIABLES
  activeConnection,     \* part_000 line 5
  activeConnectionDim,  \* part_000 line 6
  loggedIn,             \* app.loggedIn, read through Homey.app.getLoginState()
  capDim,               \* device -> getCapabilities().includes('dim')
  onoff,                \* device -> value of the 'onoff' capability
  dim,                  \* device -> value of the 'dim' capability
  settings,             \* device -> this.bluenet.settings.{admin,member,basic}Key
  fieldKeys,            \* device -> this.{admin,member,basic}Key
  bleState,             \* device -> this.state
  calls,                \* invocation -> its activation record
  storedEmail,          \* homey.settings.get('email')
  storedPassword,       \* homey.settings.get('password')
  syncPc,               \* where onInit / synchronizeCloud stands
  syncLogin,            \* outcome of the logins made by synchronizeCloud
  syncRan,              \* the passes synchronizeCloud has started
  setPc,                \* where the setSettings call stands
  setArgs,              \* its email and password
  setLogin,             \* outcome of the logins made by setSettings
  setResult,            \* what the last setSettings call returned
  nSettings,            \* setSettings calls made so far
  rawCache,             \* generation of the SlowCache contents
  fastCache,            \* generation of the SlowCache the FastCache was mapped from
  lastEvent,            \* the push event last given to eventHandler
  fired,                \* presenceTrigger.trigger calls made for it
  matched,              \* the flow cards whose run listener accepted it
  userLocation,         \* user -> location kept by the Handler
  lastRun,              \* the last runLocationTrigger call
  setRan,               \* the passes a setSettings call has started; no line
                        \* of app.ts 110-133 or 154-172 starts one
  available,            \* device -> getAvailable()
  locked,               \* device -> getData().locked
  dimmed,               \* device -> getData().dimmed
  lastApply,            \* the last changeLockState / changeDimCapability call
  inLocation,           \* part_001 inLocationId and inLocationName
  sphereId,             \* part_001 sphereId
  cloudLocation,        \* where the cloud has the user, and since which change
  storedChange,         \* the change of cloudLocation that inLocation comes from
  polls,                \* getCurrentLocation call -> its activation record
  logins,               \* loginToEventServer call -> where it stands
  openStarts            \* sse.start calls made since the last sse.stop call

deviceVars == << activeConnection, activeConnectionDim, capDim, onoff, dim, settings,
                 fieldKeys, bleState, calls >>

appVars == << storedEmail, storedPassword, syncPc, syncLogin, syncRan, setPc, setArgs,
              setLogin, setResult, nSettings, rawCache, fastCache >>

presenceVars == << lastEvent, fired, matched, userLocation, lastRun >>

refreshVars == << setRan >>

reconcileVars == << available, locked, dimmed, lastApply >>

locationVars == << inLocation, sphereId, cloudLocation, storedChange, polls >>

sseVars == << logins, openStarts >>

vars == << loggedIn, deviceVars, appVars, presenceVars, refreshVars, reconcileVars,
           locationVars, sseVars >>

IdleCall == [ kind |-> "none", pc |-> "idle", dev |-> 1, on |-> FALSE,
              frac |-> <<0, 1>>, accepted |-> FALSE, overlap |-> {},
              percentage |-> <<0, 1>>, forced |-> "none", cloudArg |-> "none",
              adv |-> "none", cloud |-> "none",
              nCloud |-> 0, nBle |-> 0, nKeys |-> 0, nFind |-> 0,
              nConnect |-> 0, nSetSwitch |-> 0, keys |-> "none" ]

\* an invocation that is suspended at an await
InFlight(c) == calls[c].pc \notin { "idle", "done", "failed" }

InFlightOf(kind) == { c \in DOMAIN calls : calls[c].kind = kind /\ InFlight(c) }

\* an invocation that has returned: its locals are gone, what it did remains
Returned(r, how) ==
  [IdleCall EXCEPT !.kind = r.kind, !.pc = how, !.accepted = r.accepted,
                   !.overlap = r.overlap, !.cloud = r.cloud, !.nCloud = r.nCloud,
                   !.nBle = r.nBle]

\* invocations are issued in the order of their index
MayIssue(c) == /\ calls[c].pc = "idle"
               /\ \A b \in DOMAIN calls : b < c => calls[b].pc # "idle"

\* the driver's module state and the paired devices when the listeners are
\* registered (part_000 lines 5-6, 15-27)
DeviceInit ==
        /\ activeConnection = FALSE
        /\ activeConnectionDim = FALSE
        /\ capDim = [d \in Devices |-> d <= NumDimmable]
        /\ onoff = [d \in Devices |-> FALSE]
        /\ dim = [d \in Devices |-> <<0, 1>>]
        /\ settings = [d \in Devices |-> [k \in KeyTypes |-> "null"]]
        /\ fieldKeys = [d \in Devices |-> [k \in KeyTypes |-> "undefined"]]
        /\ bleState = [d \in Devices |-> 0]
        /\ calls = [c \in Calls |-> IdleCall]

(* ------------------- onCapabilityOnoff (part_000) --------------------- *)

\* line 103 with the token test dropped
SwitchGuardNoToken == loggedIn

\* line 103: if (!activeConnection && Homey.app.getLoginState())
SwitchGuard == ~activeConnection /\ loggedIn

\* line 105 with the fallback taken on every outcome
NeedsRadioAlways(cloudOk) == TRUE

\* line 105: switchCloud(value).catch(... switchBLE(value) ...)
NeedsRadio(cloudOk) == ~cloudOk

\* lines 155-157: all three keys of this device's Bluenet settings are non-null
KeysPresent(d) == \A k \in KeyTypes : settings[d][k] # "null"

\* lines 111-118 with the dim level left alone
AfterSwitchNoMirror(c, r) ==
  /\ calls' = [calls EXCEPT ![c] = Returned(r, "done")]
  /\ activeConnection' = FALSE

\* lines 111-118: after the cloud attempt and any fallback have settled
AfterSwitch(c, r) ==
  IF capDim[r.dev]
    THEN /\ calls' = [calls EXCEPT ![c] = [r EXCEPT !.pc = "awaitSetDim"]]
         /\ UNCHANGED activeConnection
    ELSE /\ calls' = [calls EXCEPT ![c] = Returned(r, "done")]
         /\ activeConnection' = FALSE

\* line 144: findCrownstone() starts Homey.ManagerBLE.find(uuid, 10000)
BeginFind(r) == [r EXCEPT !.pc = "awaitFind", !.nFind = @ + 1]

\* lines 141-144 with getKeys() called again when it was rejected
AfterGetKeysRetry(r, ok) ==
  IF ok THEN BeginFind([r EXCEPT !.keys = "ok"])
        ELSE [r EXCEPT !.keys = "failed", !.pc = "awaitSphereId"]

\* lines 141-144: getKeys() has settled; a rejection is logged by the catch
\* and discovery starts either way
AfterGetKeys(r, ok) == BeginFind([r EXCEPT !.keys = IF ok THEN "ok" ELSE "failed"])

\* lines 102-105 and 125-131: the listener is invoked; an accepted invocation
\* takes the token and starts the cloud call, a refused one returns at once
OnoffRequest(c, d, v) ==
  /\ MayIssue(c)
  /\ LET r == [IdleCall EXCEPT !.kind = "onoff", !.dev = d, !.on = v,
                               !.overlap = InFlightOf("onoff")]
     IN IF SwitchGuard
          THEN /\ activeConnection' = TRUE
               /\ calls' = [calls EXCEPT ![c] =
                    [r EXCEPT !.pc = "awaitCloud", !.accepted = TRUE,
                              !.nCloud = @ + 1, !.cloud = "pending",
                              !.cloudArg = IF v THEN "turnOn" ELSE "turnOff"]]
          ELSE /\ calls' = [calls EXCEPT ![c] = Returned(r, "done")]
               /\ UNCHANGED activeConnection
  /\ UNCHANGED << refreshVars, reconcileVars, locationVars, sseVars,
                  appVars, presenceVars, activeConnectionDim, loggedIn, capDim, onoff, dim, settings,
                  fieldKeys, bleState >>

\* lines 105-110, 136-143, 154-162: the cloud call settles; on failure
\* switchBLE starts: this.state is set and getKeys() runs up to its first await
CloudSwitchResolve(c, ok) ==
  /\ calls[c].pc = "awaitCloud"
  /\ LET d == calls[c].dev
         r == [calls[c] EXCEPT !.cloud = IF ok THEN "ok" ELSE "failed"]
         b == [r EXCEPT !.nBle = @ + 1]
     IN IF NeedsRadio(ok)
          THEN /\ bleState' = [bleState EXCEPT ![d] = IF r.on THEN 1 ELSE 0]
               /\ calls' = [calls EXCEPT ![c] =
                    IF KeysPresent(d) THEN BeginFind(b)
                                      ELSE [b EXCEPT !.pc = "awaitSphereId"]]
               /\ UNCHANGED activeConnection
          ELSE /\ AfterSwitch(c, r)
               /\ UNCHANGED bleState
  /\ UNCHANGED << refreshVars, reconcileVars, locationVars, sseVars,
                  appVars, presenceVars, activeConnectionDim, loggedIn, capDim, onoff, dim, settings,
                  fieldKeys >>

\* lines 162-163 and 141-144: Homey.app.getSphereId() settles; a rejection
\* leaves getKeys(), is logged at line 142, and discovery starts
SphereIdResolve(c, ok) ==
  /\ calls[c].pc = "awaitSphereId"
  /\ calls' = [calls EXCEPT ![c] =
       IF ok THEN [@ EXCEPT !.pc = "awaitKeys", !.nKeys = @ + 1]
             ELSE AfterGetKeys(@, FALSE)]
  /\ UNCHANGED << refreshVars, reconcileVars, locationVars, sseVars,
                  appVars, presenceVars, activeConnection, activeConnectionDim, loggedIn, capDim, onoff,
                  dim, settings, fieldKeys, bleState >>

\* lines 164-173: the keys of the response are stored by type on the device
StoreKeys(old, resp) == [k \in KeyTypes |-> IF k \in resp THEN "key" ELSE old[k]]

\* line 174: bluenet.settings.loadKeys(adminKey, memberKey, basicKey)
LoadKeys(fields) == [k \in KeyTypes |-> fields[k]]

\* lines 163-174 and 141-144: cloud.sphere(sphereId).keys() settles
KeysResolve(c, ok, resp) ==
  /\ calls[c].pc = "awaitKeys"
  /\ LET d == calls[c].dev
     IN IF ok
          THEN /\ fieldKeys' = [fieldKeys EXCEPT ![d] = StoreKeys(@, resp)]
               /\ settings' = [settings EXCEPT ![d] = LoadKeys(fieldKeys'[d])]
          ELSE UNCHANGED << fieldKeys, settings >>
  /\ calls' = [calls EXCEPT ![c] = AfterGetKeys(@, ok)]
  /\ UNCHANGED << refreshVars, reconcileVars, locationVars, sseVars,
                  appVars, presenceVars, activeConnection, activeConnectionDim, loggedIn, capDim, onoff,
                  dim, bleState >>

\* lines 182-195 and 144-145: discovery settles with an advertisement or with
\* null (timeout, or an error caught at line 184); connect is called with it
FindResolve(c, found) ==
  /\ calls[c].pc = "awaitFind"
  /\ calls' = [calls EXCEPT ![c] =
       [@ EXCEPT !.pc = "awaitConnect", !.nConnect = @ + 1,
                 !.adv = IF found THEN "advertisement" ELSE "null"]]
  /\ UNCHANGED << refreshVars, reconcileVars, locationVars, sseVars,
                  appVars, presenceVars, activeConnection, activeConnectionDim, loggedIn, capDim, onoff,
                  dim, settings, fieldKeys, bleState >>

\* lines 145-146: bluenet.connect settles; a rejection leaves switchBLE and is
\* logged at line 108
ConnectResolve(c, ok) ==
  /\ calls[c].pc = "awaitConnect"
  /\ IF ok
       THEN /\ calls' = [calls EXCEPT ![c] =
                 [@ EXCEPT !.pc = "awaitSetSwitchState", !.nSetSwitch = @ + 1]]
            /\ UNCHANGED activeConnection
       ELSE AfterSwitch(c, calls[c])
  /\ UNCHANGED << refreshVars, reconcileVars, locationVars, sseVars,
                  appVars, presenceVars, activeConnectionDim, loggedIn, capDim, onoff, dim, settings,
                  fieldKeys, bleState >>

\* lines 146-147: bluenet.control.setSwitchState settles
SetSwitchStateResolve(c, ok) ==
  /\ calls[c].pc = "awaitSetSwitchState"
  /\ IF ok
       THEN /\ calls' = [calls EXCEPT ![c] = [@ EXCEPT !.pc = "awaitControlDisconnect"]]
            /\ UNCHANGED activeConnection
       ELSE AfterSwitch(c, calls[c])
  /\ UNCHANGED << refreshVars, reconcileVars, locationVars, sseVars,
                  appVars, presenceVars, activeConnectionDim, loggedIn, capDim, onoff, dim, settings,
                  fieldKeys, bleState >>

\* lines 147-148: bluenet.control.disconnect settles
ControlDisconnectResolve(c, ok) ==
  /\ calls[c].pc = "awaitControlDisconnect"
  /\ IF ok
       THEN /\ calls' = [calls EXCEPT ![c] = [@ EXCEPT !.pc = "awaitDisconnect"]]
            /\ UNCHANGED activeConnection
       ELSE AfterSwitch(c, calls[c])
  /\ UNCHANGED << refreshVars, reconcileVars, locationVars, sseVars,
                  appVars, presenceVars, activeConnectionDim, loggedIn, capDim, onoff, dim, settings,
                  fieldKeys, bleState >>

\* line 148: bluenet.disconnect settles; switchBLE is over either way
DisconnectResolve(c, ok) ==
  /\ calls[c].pc = "awaitDisconnect"
  /\ AfterSwitch(c, calls[c])
  /\ UNCHANGED << refreshVars, reconcileVars, locationVars, sseVars,
                  appVars, presenceVars, activeConnectionDim, loggedIn, capDim, onoff, dim, settings,
                  fieldKeys, bleState >>

\* lines 111-118: setCapabilityValue('dim', 1 | 0) settles; a rejection leaves
\* the listener before line 118
SetDimValueResolve(c, ok) ==
  /\ calls[c].pc = "awaitSetDim"
  /\ LET d == calls[c].dev
     IN IF ok
          THEN /\ dim' = [dim EXCEPT ![d] = IF calls[c].on THEN FromInt(1) ELSE FromInt(0)]
               /\ activeConnection' = FALSE
               /\ calls' = [calls EXCEPT ![c] = Returned(@, "done")]
          ELSE /\ calls' = [calls EXCEPT ![c] = Returned(@, "failed")]
               /\ UNCHANGED << dim, activeConnection >>
  /\ UNCHANGED << refreshVars, reconcileVars, locationVars, sseVars,
                  appVars, presenceVars, activeConnectionDim, loggedIn, capDim, onoff, settings,
                  fieldKeys, bleState >>

(* -------------------- onCapabilityDim (part_000) ---------------------- *)

\* line 84 with the login test dropped
DimGuardNoLogin == ~activeConnection

\* line 84: if (!activeConnection && Homey.app.getLoginState())
DimGuard == ~activeConnection /\ loggedIn

\* lines 86-87 without the clamp to the 10% floor
PercentageNoFloor(value) == Times(value, 100)

\* lines 86-87: percentage = value*100, raised to 10 when in (0,10)
Percentage(value) ==
  LET percentage == Times(value, 100)
  IN IF GreaterThanInt(percentage, 0) /\ LessThanInt(percentage, 10)
       THEN FromInt(10)
       ELSE percentage

\* lines 88-92: the on/off value the listener pushes to the platform
ForcedOnoff(percentage) ==
  IF GreaterThanInt(percentage, 0) THEN "on"
  ELSE IF LessThanInt(percentage, 1) THEN "off"
  ELSE "none"

\* line 93 with the percentage sent over the radio, as switchBLE does
BeginSetSwitchOverRadio(r) == BeginFind([r EXCEPT !.nBle = @ + 1])

\* line 93: cloud.crownstone(id).setSwitch(percentage) is started
BeginSetSwitch(r) ==
  [r EXCEPT !.pc = "awaitSetSwitch", !.nCloud = @ + 1, !.cloud = "pending",
            !.cloudArg = r.percentage]

\* lines 83-92: the listener is invoked on a device that has the capability;
\* an accepted invocation sets the dim token, converts the value and starts
\* the on/off update
DimRequest(c, d, v) ==
  /\ MayIssue(c)
  /\ capDim[d]
  /\ LET r == [IdleCall EXCEPT !.kind = "dim", !.dev = d, !.frac = v,
                               !.overlap = InFlightOf("dim")]
         a == [r EXCEPT !.accepted = TRUE, !.percentage = Percentage(v),
                        !.forced = ForcedOnoff(Percentage(v))]
     IN IF DimGuard
          THEN /\ activeConnectionDim' = TRUE
               /\ calls' = [calls EXCEPT ![c] =
                    IF a.forced = "none" THEN BeginSetSwitch(a)
                                         ELSE [a EXCEPT !.pc = "awaitSetOnoff"]]
          ELSE /\ calls' = [calls EXCEPT ![c] = Returned(r, "done")]
               /\ UNCHANGED activeConnectionDim
  /\ UNCHANGED << refreshVars, reconcileVars, locationVars, sseVars,
                  appVars, presenceVars, activeConnection, loggedIn, capDim, onoff, dim, settings,
                  fieldKeys, bleState >>

\* lines 89-93: setCapabilityValue('onoff', ...) settles; a rejection leaves
\* the listener, otherwise the percentage is sent to the cloud
SetOnoffResolve(c, ok) ==
  /\ calls[c].pc = "awaitSetOnoff"
  /\ LET d == calls[c].dev
     IN IF ok
          THEN /\ onoff' = [onoff EXCEPT ![d] = (calls[c].forced = "on")]
               /\ calls' = [calls EXCEPT ![c] = BeginSetSwitch(@)]
          ELSE /\ calls' = [calls EXCEPT ![c] = Returned(@, "failed")]
               /\ UNCHANGED onoff
  /\ UNCHANGED << refreshVars, reconcileVars, locationVars, sseVars,
                  appVars, presenceVars, activeConnection, activeConnectionDim, loggedIn, capDim, dim,
                  settings, fieldKeys, bleState >>

\* lines 93-94: setSwitch settles; a rejection leaves the listener before the
\* dim token is reset
SetSwitchResolve(c, ok) ==
  /\ calls[c].pc = "awaitSetSwitch"
  /\ IF ok
       THEN /\ activeConnectionDim' = FALSE
            /\ calls' = [calls EXCEPT ![c] = Returned([@ EXCEPT !.cloud = "ok"], "done")]
       ELSE /\ calls' = [calls EXCEPT ![c] =
                 Returned([@ EXCEPT !.cloud = "failed"], "failed")]
            /\ UNCHANGED activeConnectionDim
  /\ UNCHANGED << refreshVars, reconcileVars, locationVars, sseVars,
                  appVars, presenceVars, activeConnection, loggedIn, capDim, onoff, dim, settings,
                  fieldKeys, bleState >>

(* ------------------------- CrownstoneApp (app.ts) --------------------- *)

Emails == { "", "user@home" }

Passwords == { "", "secret" }

NoArgs == [ email |-> "", password |-> "" ]

\* the app object before onInit runs
AppFresh ==
  /\ syncPc = "start"
  /\ syncLogin = "none"
  /\ syncRan = {}
  /\ setRan = {}
  /\ setPc = "idle"
  /\ setArgs = NoArgs
  /\ setLogin = "none"
  /\ setResult = "none"
  /\ nSettings = 0
  /\ rawCache = 0
  /\ fastCache = 0

\* the settings hold what the user stored, if anything
AppInit ==
  /\ storedEmail \in Emails
  /\ storedPassword \in Passwords
  /\ AppFresh

\* lines 139-149
containsAccountSettings == storedEmail # "" /\ storedPassword # ""

\* lines 40-70, 82-88 and 154-157: onInit; with account settings it enters
\* synchronizeCloud and setupConnections up to mirror.login
OnInit ==
  /\ syncPc = "start"
  /\ loggedIn' = FALSE
  /\ syncPc' = IF containsAccountSettings THEN "mirrorLogin" ELSE "done"
  /\ syncLogin' = IF containsAccountSettings THEN "pending" ELSE "none"
  /\ UNCHANGED << refreshVars, reconcileVars, locationVars, sseVars,
                  deviceVars, presenceVars, storedEmail, storedPassword, syncRan,
                  setPc, setArgs, setLogin, setResult, nSettings, rawCache, fastCache >>

\* lines 157-164 and 87-96: mirror.login settles; on failure setupConnections
\* returns normally at line 161, the catch at line 90 is not entered and
\* mirror.getAll() is started
SyncMirrorLoginResolve(ok) ==
  /\ syncPc = "mirrorLogin"
  /\ IF ok
       THEN /\ syncPc' = "eventsLogin"
            /\ UNCHANGED << syncLogin, syncRan >>
       ELSE /\ syncLogin' = "failed"
            /\ syncPc' = "getAll"
            /\ syncRan' = syncRan \cup { "getAll" }
  /\ UNCHANGED << refreshVars, reconcileVars, locationVars, sseVars,
                  loggedIn, deviceVars, presenceVars, storedEmail, storedPassword,
                  setPc, setArgs, setLogin, setResult, nSettings, rawCache, fastCache >>

\* lines 164-172 and 87-96: serverEvents.login settles; setupConnections
\* returns normally either way and mirror.getAll() is started
SyncEventsLoginResolve(ok) ==
  /\ syncPc = "eventsLogin"
  /\ syncLogin' = IF ok THEN "ok" ELSE "failed"
  /\ loggedIn' = IF ok THEN TRUE ELSE loggedIn
  /\ syncPc' = "getAll"
  /\ syncRan' = syncRan \cup { "getAll" }
  /\ UNCHANGED << refreshVars, reconcileVars, locationVars, sseVars,
                  deviceVars, presenceVars, storedEmail, storedPassword,
                  setPc, setArgs, setLogin, setResult, nSettings, rawCache, fastCache >>

\* lines 96-99: mirror.getAll() settles; it replaces the SlowCache contents
SyncGetAllResolve(ok) ==
  /\ syncPc = "getAll"
  /\ IF ok
       THEN /\ rawCache' = rawCache + 1
            /\ syncPc' = "mapAll"
            /\ syncRan' = syncRan \cup { "mapAll" }
       ELSE /\ syncPc' = "failed"
            /\ UNCHANGED << rawCache, syncRan >>
  /\ UNCHANGED << refreshVars, reconcileVars, locationVars, sseVars,
                  loggedIn, deviceVars, presenceVars, storedEmail, storedPassword,
                  syncLogin, setPc, setArgs, setLogin, setResult, nSettings, fastCache >>

\* lines 99-105 and 72-73: mapper.mapAll() settles; it projects the SlowCache
\* into the FastCache; then deviceManager.updateDevices() and back in onInit
SyncMapAllResolve(ok) ==
  /\ syncPc = "mapAll"
  /\ IF ok
       THEN /\ fastCache' = rawCache
            /\ syncPc' = "done"
            /\ syncRan' = syncRan \cup { "updateDevices" }
       ELSE /\ syncPc' = "failed"
            /\ UNCHANGED << fastCache, syncRan >>
  /\ UNCHANGED << refreshVars, reconcileVars, locationVars, sseVars,
                  loggedIn, deviceVars, presenceVars, storedEmail, storedPassword,
                  syncLogin, setPc, setArgs, setLogin, setResult, nSettings, rawCache >>

\* lines 110-121 and 154-157: setSettings is called from the settings page
SetSettings(email, password) ==
  /\ setPc = "idle"
  /\ nSettings < MaxSettings
  /\ nSettings' = nSettings + 1
  /\ IF email = "" \/ password = ""
       THEN /\ setResult' = "false"
            /\ setLogin' = "none"
            /\ UNCHANGED << loggedIn, setPc, setArgs >>
       ELSE /\ loggedIn' = FALSE
            /\ setPc' = "mirrorLogin"
            /\ setArgs' = [ email |-> email, password |-> password ]
            /\ setLogin' = "pending"
            /\ setResult' = "none"
  /\ UNCHANGED << refreshVars, reconcileVars, locationVars, sseVars,
                  deviceVars, presenceVars, storedEmail, storedPassword, syncPc,
                  syncLogin, syncRan, rawCache, fastCache >>

\* lines 128-132: the settings are stored and this.loggedIn is returned
StoreAndReturn(flag) ==
  /\ storedEmail' = setArgs.email
  /\ storedPassword' = setArgs.password
  /\ setResult' = IF flag THEN "true" ELSE "false"
  /\ setPc' = "idle"
  /\ setArgs' = NoArgs

\* lines 157-164 and 120-132: mirror.login of a setSettings call settles
SetMirrorLoginResolve(ok) ==
  /\ setPc = "mirrorLogin"
  /\ IF ok
       THEN /\ setPc' = "eventsLogin"
            /\ UNCHANGED << storedEmail, storedPassword, setResult, setArgs, setLogin >>
       ELSE /\ setLogin' = "failed"
            /\ StoreAndReturn(loggedIn)
  /\ UNCHANGED << refreshVars, reconcileVars, locationVars, sseVars,
                  loggedIn, deviceVars, presenceVars, syncPc, syncLogin, syncRan,
                  nSettings, rawCache, fastCache >>

\* lines 164-172 and 120-132: serverEvents.login of a setSettings call settles
SetEventsLoginResolve(ok) ==
  /\ setPc = "eventsLogin"
  /\ setLogin' = IF ok THEN "ok" ELSE "failed"
  /\ loggedIn' = IF ok THEN TRUE ELSE loggedIn
  /\ StoreAndReturn(loggedIn')
  /\ UNCHANGED << refreshVars, reconcileVars, locationVars, sseVars,
                  deviceVars, presenceVars, syncPc, syncLogin, syncRan, nSettings,
                  rawCache, fastCache >>

(* --------------------------- presence flow ---------------------------- *)

RoomIds == { "A", "B" }

RoomNames == { "Kitchen", "Hall" }

Rooms == [ id : RoomIds, name : RoomNames ]

Users == { "u1", "u2" }

\* the flows that use the user_enters_room card, by the room chosen in them
Cards == Rooms

\* what the sse-server delivers
Events == [ type : { "presence", "dataChange" },
            subType : { "enterLocation", "exitLocation" },
            location : Rooms, user : Users ]

NoEvent == [ type |-> "none", subType |-> "none",
             location |-> [ id |-> "A", name |-> "Kitchen" ], user |-> "u1" ]

NoRun == [ user |-> "u1", enter |-> TRUE, made |-> FALSE ]

\* the Handler knows no location for the user
NullLocation == [ id |-> "null", name |-> "null" ]

PresenceInit ==
  /\ lastEvent = NoEvent
  /\ fired = 0
  /\ matched = {}
  /\ userLocation = [ u \in Users |-> NullLocation ]
  /\ lastRun = NoRun

\* part_001 line 17 with the name left out of the comparison
RunListenerIdOnly(args, state) == args.id = state.id

\* part_001 line 17: the run listener of the trigger card
RunListener(args, state) == args.name = state.name /\ args.id = state.id

\* part_001 line 109
IsEnterEvent(data) == data.type = "presence" /\ data.subType = "enterLocation"

\* part_001 lines 108-113 and 17: eventHandler; an enter event fires the
\* trigger once and the platform runs the listener of every flow with the card
EventHandler(data) ==
  /\ lastEvent' = data
  /\ IF IsEnterEvent(data)
       THEN LET state == [ name |-> data.location.name, id |-> data.location.id ]
            IN /\ fired' = 1
               /\ matched' = { card \in Cards : RunListener(card, state) }
       ELSE /\ fired' = 0
            /\ matched' = {}
  /\ UNCHANGED << refreshVars, reconcileVars, locationVars, sseVars,
                  loggedIn, deviceVars, appVars, userLocation, lastRun >>

\* handler.moveUser(user, location): the Handler records where the user is
MoveUser(user, location) == [ userLocation EXCEPT ![user] = location ]

\* app.ts lines 190-198: runLocationTrigger
RunLocationTrigger(data, enterEvent) ==
  /\ lastRun' = [ user |-> data.user, enter |-> enterEvent, made |-> TRUE ]
  /\ userLocation' = IF ~enterEvent THEN userLocation
                     ELSE MoveUser(data.user, data.location)
  /\ UNCHANGED << refreshVars, reconcileVars, locationVars, sseVars,
                  loggedIn, deviceVars, appVars, lastEvent, fired, matched >>

(* ----------------- part_001: the user_is_in_room card ------------------ *)

Polls == 1..MaxPolls

\* the value of inLocationId and inLocationName before any assignment
Undefined == [ id |-> "undefined", name |-> "undefined" ]

\* currentLocation() answers with an empty list
Nowhere == [ id |-> "none", name |-> "none" ]

\* a poll that has not got an answer of currentLocation()
Unseen == [ id |-> "unseen", name |-> "unseen" ]

IdlePoll == [ pc |-> "idle", args |-> [ id |-> "A", name |-> "Kitchen" ],
              seen |-> Unseen, seenChange |-> 0, used |-> Undefined,
              result |-> "none" ]

LocationInit ==
  /\ inLocation = Undefined
  /\ sphereId = "undefined"
  /\ cloudLocation = [ at |-> Nowhere, change |-> 0 ]
  /\ storedChange = 0
  /\ polls = [ p \in Polls |-> IdlePoll ]

\* the user enters a room or leaves the rooms, and the cloud records it
UserMoves(room) ==
  /\ cloudLocation.change < MaxChanges
  /\ room # cloudLocation.at
  /\ cloudLocation' = [ at |-> room, change |-> cloudLocation.change + 1 ]
  /\ UNCHANGED << loggedIn, deviceVars, appVars, presenceVars, refreshVars,
                  reconcileVars, sseVars, inLocation, sphereId, storedChange, polls >>

\* lines 26-29: what the run listener returns once getCurrentLocation is over,
\* given the value of inLocationId and inLocationName at that moment
Evaluate(r, location) ==
  [ r EXCEPT !.pc = "done",
             !.used = location,
             !.result = IF location # Undefined
                          THEN IF r.args.id = location.id /\ r.args.name = location.name
                                 THEN "true" ELSE "false"
                          ELSE "false" ]

\* lines 23-24 and 118-119: a flow evaluates the card for the room in args;
\* the listener calls getCurrentLocation, which awaits cloud.me()
ConditionRun(p, args) ==
  /\ polls[p].pc = "idle"
  /\ \A q \in 1..(p - 1) : polls[q].pc # "idle"
  /\ polls' = [ polls EXCEPT ![p] = [ @ EXCEPT !.pc = "awaitMe", !.args = args ] ]
  /\ UNCHANGED << loggedIn, deviceVars, appVars, presenceVars, refreshVars,
                  reconcileVars, sseVars, inLocation, sphereId, cloudLocation,
                  storedChange >>

\* lines 119-120 and 24-29: cloud.me() settles; a rejection ends
\* getCurrentLocation, is logged by the catch in line 24 and the listener goes on
MeResolve(p, ok) ==
  /\ polls[p].pc = "awaitMe"
  /\ polls' = [ polls EXCEPT ![p] =
                  IF ok THEN [ @ EXCEPT !.pc = "awaitCurrentLocation" ]
                        ELSE Evaluate(@, inLocation) ]
  /\ UNCHANGED << loggedIn, deviceVars, appVars, presenceVars, refreshVars,
                  reconcileVars, sseVars, inLocation, sphereId, cloudLocation,
                  storedChange >>

\* lines 120-122, 131-133 and 24-29: currentLocation() settles with where the
\* cloud has the user at that moment; with an empty list 'Unable to locate
\* user' is logged and the three variables keep what they held
CurrentLocationResolve(p, ok) ==
  /\ polls[p].pc = "awaitCurrentLocation"
  /\ polls' = [ polls EXCEPT ![p] =
                  IF ~ok THEN Evaluate(@, inLocation)
                  ELSE LET r == [ @ EXCEPT !.seen = cloudLocation.at,
                                           !.seenChange = cloudLocation.change ]
                       IN IF cloudLocation.at # Nowhere
                            THEN [ r EXCEPT !.pc = "awaitSpheres" ]
                            ELSE Evaluate(r, inLocation) ]
  /\ UNCHANGED << loggedIn, deviceVars, appVars, presenceVars, refreshVars,
                  reconcileVars, sseVars, inLocation, sphereId, cloudLocation,
                  storedChange >>

\* lines 122-130 and 24-29: cloud.spheres() settles; with a sphere in the list
\* (some) the answer currentLocation() gave earlier is written to sphereId,
\* inLocationName and inLocationId, whatever they hold; with a rejection or an
\* empty list they keep what they held
SpheresResolve(p, some) ==
  /\ polls[p].pc = "awaitSpheres"
  /\ IF some
       THEN /\ sphereId' = "sphere"
            /\ inLocation' = polls[p].seen
            /\ storedChange' = polls[p].seenChange
       ELSE UNCHANGED << sphereId, inLocation, storedChange >>
  /\ polls' = [ polls EXCEPT ![p] = Evaluate(@, inLocation') ]
  /\ UNCHANGED << loggedIn, deviceVars, appVars, presenceVars, refreshVars,
                  reconcileVars, sseVars, cloudLocation >>

(* ---------------- part_001: the session of the sse-server -------------- *)

Logins == 1..MaxLogins

SseInit ==
  /\ logins = [ l \in Logins |-> "idle" ]
  /\ openStarts = 0

\* lines 58 and 63-68, 99-100: loginToEventServer is called, by onInit first
\* and then by the handler of every 'set' event of the settings, which does
\* not wait for the call of an earlier event; it calls sse.stop() at once
LoginToEventServer(l) ==
  /\ logins[l] = "idle"
  /\ \A k \in 1..(l - 1) : logins[k] # "idle"
  /\ logins' = [ logins EXCEPT ![l] = "awaitStop" ]
  /\ openStarts' = 0
  /\ UNCHANGED << loggedIn, deviceVars, appVars, presenceVars, refreshVars,
                  reconcileVars, locationVars >>

\* lines 100-101: sse.stop() settles and sse.login(email, password) is called;
\* a rejection ends the call and is logged by the catch of the caller
StopResolve(l, ok) ==
  /\ logins[l] = "awaitStop"
  /\ logins' = [ logins EXCEPT ![l] = IF ok THEN "awaitLogin" ELSE "failed" ]
  /\ UNCHANGED << loggedIn, deviceVars, appVars, presenceVars, refreshVars,
                  reconcileVars, locationVars, openStarts >>

\* lines 101-102: sse.login settles and sse.start(eventHandler) is called
SseLoginResolve(l, ok) ==
  /\ logins[l] = "awaitLogin"
  /\ logins' = [ logins EXCEPT ![l] = IF ok THEN "awaitStart" ELSE "failed" ]
  /\ openStarts' = IF ok THEN openStarts + 1 ELSE openStarts
  /\ UNCHANGED << loggedIn, deviceVars, appVars, presenceVars, refreshVars,
                  reconcileVars, locationVars >>

\* lines 102-103: sse.start settles
StartResolve(l, ok) ==
  /\ logins[l] = "awaitStart"
  /\ logins' = [ logins EXCEPT ![l] = IF ok THEN "done" ELSE "failed" ]
  /\ UNCHANGED << loggedIn, deviceVars, appVars, presenceVars, refreshVars,
                  reconcileVars, locationVars, openStarts >>

(* ------------- part_000: the lock state and the dim capability --------- *)

NoApply == [ op |-> "none", dev |-> 1, state |-> FALSE, call |-> "none",
             ok |-> TRUE ]

ReconcileInit ==
  /\ available = [ d \in Devices |-> TRUE ]
  /\ locked = [ d \in Devices |-> FALSE ]
  /\ dimmed = capDim
  /\ lastApply = NoApply

\* line 56 without the test of getAvailable()
MustLockUntested(state, isAvailable) == state

\* line 56
MustLock(state, isAvailable) == state /\ isAvailable

\* line 59
MustUnlock(state, isAvailable) == ~state /\ ~isAvailable

\* line 69
MustAddDim(state, hasDim) == state /\ ~hasDim

\* line 72
MustRemoveDim(state, hasDim) == ~state /\ hasDim

\* lines 55-63: changeLockState(state), called by onInit (line 19) and, a
\* second or more later (line 37), by checkCsData (line 43); the step runs to
\* the settling of setUnavailable or setAvailable, which the platform carries
\* out (ok) or rejects
ChangeLockState(d, state, ok) ==
  /\ IF MustLock(state, available[d])
       THEN /\ locked' = [ locked EXCEPT ![d] = TRUE ]
            /\ available' = [ available EXCEPT ![d] = IF ok THEN FALSE ELSE @ ]
            /\ lastApply' = [ op |-> "lock", dev |-> d, state |-> state,
                              call |-> "setUnavailable", ok |-> ok ]
       ELSE IF MustUnlock(state, available[d])
         THEN /\ locked' = [ locked EXCEPT ![d] = FALSE ]
              /\ available' = [ available EXCEPT ![d] = IF ok THEN TRUE ELSE @ ]
              /\ lastApply' = [ op |-> "lock", dev |-> d, state |-> state,
                                call |-> "setAvailable", ok |-> ok ]
         ELSE /\ UNCHANGED << locked, available >>
              /\ lastApply' = [ op |-> "lock", dev |-> d, state |-> state,
                                call |-> "none", ok |-> TRUE ]
  /\ UNCHANGED << loggedIn, deviceVars, appVars, presenceVars, refreshVars,
                  locationVars, sseVars, dimmed >>

\* lines 68-76: changeDimCapability(state), called by onInit (line 20) and by
\* checkCsData (line 44); the step runs to the settling of addCapability or
\* removeCapability, whose rejection is logged
ChangeDimCapability(d, state, ok) ==
  /\ IF MustAddDim(state, capDim[d])
       THEN /\ dimmed' = [ dimmed EXCEPT ![d] = TRUE ]
            /\ capDim' = [ capDim EXCEPT ![d] = IF ok THEN TRUE ELSE @ ]
            /\ lastApply' = [ op |-> "dim", dev |-> d, state |-> state,
                              call |-> "addCapability", ok |-> ok ]
       ELSE IF MustRemoveDim(state, capDim[d])
         THEN /\ dimmed' = [ dimmed EXCEPT ![d] = FALSE ]
              /\ capDim' = [ capDim EXCEPT ![d] = IF ok THEN FALSE ELSE @ ]
              /\ lastApply' = [ op |-> "dim", dev |-> d, state |-> state,
                                call |-> "removeCapability", ok |-> ok ]
         ELSE /\ UNCHANGED << dimmed, capDim >>
              /\ lastApply' = [ op |-> "dim", dev |-> d, state |-> state,
                                call |-> "none", ok |-> TRUE ]
  /\ UNCHANGED << loggedIn, activeConnection, activeConnectionDim, onoff, dim,
                  settings, fieldKeys, bleState, calls, appVars, presenceVars,
                  refreshVars, locationVars, sseVars, available, locked >>

(* --------------------------- specification ---------------------------- *)

Next ==
  \/ \E c \in Calls, d \in Devices, v \in BOOLEAN : OnoffRequest(c, d, v)
  \/ \E c \in Calls, ok \in BOOLEAN : CloudSwitchResolve(c, ok)
  \/ \E c \in Calls, ok \in BOOLEAN : SphereIdResolve(c, ok)
  \/ \E c \in Calls, ok \in BOOLEAN, resp \in KeyResponses : KeysResolve(c, ok, resp)
  \/ \E c \in Calls, found \in BOOLEAN : FindResolve(c, found)
  \/ \E c \in Calls, ok \in BOOLEAN : ConnectResolve(c, ok)
  \/ \E c \in Calls, ok \in BOOLEAN : SetSwitchStateResolve(c, ok)
  \/ \E c \in Calls, ok \in BOOLEAN : ControlDisconnectResolve(c, ok)
  \/ \E c \in Calls, ok \in BOOLEAN : DisconnectResolve(c, ok)
  \/ \E c \in Calls, ok \in BOOLEAN : SetDimValueResolve(c, ok)
  \/ \E c \in Calls, d \in Devices, v \in DimValues : DimRequest(c, d, v)
  \/ \E c \in Calls, ok \in BOOLEAN : SetOnoffResolve(c, ok)
  \/ \E c \in Calls, ok \in BOOLEAN : SetSwitchResolve(c, ok)

\* the driver and the flow cards of a user with an account, logged in or not
Init == /\ loggedIn \in BOOLEAN
        /\ DeviceInit
        /\ storedEmail = "user@home"
        /\ storedPassword = "secret"
        /\ AppFresh
        /\ PresenceInit
        /\ LocationInit
        /\ SseInit
        /\ ReconcileInit

Spec == Init /\ [][Next]_vars

\* the app from its construction on (app.ts line 57 comes with OnInit)
InitApp == /\ loggedIn = FALSE
           /\ DeviceInit
           /\ AppInit
           /\ PresenceInit
           /\ LocationInit
           /\ SseInit
           /\ ReconcileInit

NextApp ==
  \/ OnInit
  \/ \E ok \in BOOLEAN : SyncMirrorLoginResolve(ok)
  \/ \E ok \in BOOLEAN : SyncEventsLoginResolve(ok)
  \/ \E ok \in BOOLEAN : SyncGetAllResolve(ok)
  \/ \E ok \in BOOLEAN : SyncMapAllResolve(ok)
  \/ \E email \in Emails, password \in Passwords : SetSettings(email, password)
  \/ \E ok \in BOOLEAN : SetMirrorLoginResolve(ok)
  \/ \E ok \in BOOLEAN : SetEventsLoginResolve(ok)

SpecApp == InitApp /\ [][NextApp]_vars

NextPresence ==
  \/ \E data \in Events : EventHandler(data)
  \/ \E u \in Users, room \in Rooms, enter \in BOOLEAN :
       RunLocationTrigger([ user |-> u, location |-> room ], enter)

SpecPresence == Init /\ [][NextPresence]_vars

NextLocation ==
  \/ \E room \in Rooms \cup { Nowhere } : UserMoves(room)
  \/ \E p \in Polls, args \in Rooms : ConditionRun(p, args)
  \/ \E p \in Polls, ok \in BOOLEAN : MeResolve(p, ok)
  \/ \E p \in Polls, ok \in BOOLEAN : CurrentLocationResolve(p, ok)
  \/ \E p \in Polls, some \in BOOLEAN : SpheresResolve(p, some)

\* the old app (part_001) with flows that use the user_is_in_room card
SpecLocation == Init /\ [][NextLocation]_vars

InterplayCalls == 1..MaxInterplayCalls

\* the listeners of one device that has the dim capability, with the app
\* logged in (part_000 lines 5-6, 15-27)
InitInterplay ==
  /\ loggedIn = TRUE
  /\ activeConnection = FALSE
  /\ activeConnectionDim = FALSE
  /\ capDim = [d \in Devices |-> d <= NumDimmable]
  /\ onoff = [d \in Devices |-> FALSE]
  /\ dim = [d \in Devices |-> <<0, 1>>]
  /\ settings = [d \in Devices |-> [k \in KeyTypes |-> "null"]]
  /\ fieldKeys = [d \in Devices |-> [k \in KeyTypes |-> "undefined"]]
  /\ bleState = [d \in Devices |-> 0]
  /\ calls = [c \in InterplayCalls |-> IdleCall]
  /\ storedEmail = "user@home"
  /\ storedPassword = "secret"
  /\ AppFresh
  /\ PresenceInit
  /\ LocationInit
  /\ SseInit
  /\ ReconcileInit

NextInterplay ==
  \/ \E c \in InterplayCalls, v \in BOOLEAN : OnoffRequest(c, 1, v)
  \/ \E c \in InterplayCalls, ok \in BOOLEAN : CloudSwitchResolve(c, ok)
  \/ \E c \in InterplayCalls, ok \in BOOLEAN : SphereIdResolve(c, ok)
  \/ \E c \in InterplayCalls, ok \in BOOLEAN, resp \in KeyResponses :
       KeysResolve(c, ok, resp)
  \/ \E c \in InterplayCalls, found \in BOOLEAN : FindResolve(c, found)
  \/ \E c \in InterplayCalls, ok \in BOOLEAN : ConnectResolve(c, ok)
  \/ \E c \in InterplayCalls, ok \in BOOLEAN : SetSwitchStateResolve(c, ok)
  \/ \E c \in InterplayCalls, ok \in BOOLEAN : ControlDisconnectResolve(c, ok)
  \/ \E c \in InterplayCalls, ok \in BOOLEAN : DisconnectResolve(c, ok)
  \/ \E c \in InterplayCalls, ok \in BOOLEAN : SetDimValueResolve(c, ok)
  \/ \E c \in InterplayCalls, v \in DimValues : DimRequest(c, 1, v)
  \/ \E c \in InterplayCalls, ok \in BOOLEAN : SetOnoffResolve(c, ok)
  \/ \E c \in InterplayCalls, ok \in BOOLEAN : SetSwitchResolve(c, ok)

\* the two listeners of one dimmable device over a longer run
SpecInterplay == InitInterplay /\ [][NextInterplay]_vars

NextEvents ==
  \/ \E l \in Logins : LoginToEventServer(l)
  \/ \E l \in Logins, ok \in BOOLEAN : StopResolve(l, ok)
  \/ \E l \in Logins, ok \in BOOLEAN : SseLoginResolve(l, ok)
  \/ \E l \in Logins, ok \in BOOLEAN : StartResolve(l, ok)

\* the old app (part_001) while the settings are edited
SpecEvents == Init /\ [][NextEvents]_vars

NextReconcile ==
  \/ \E d \in Devices, state \in BOOLEAN, ok \in BOOLEAN : ChangeLockState(d, state, ok)
  \/ \E d \in Devices, state \in BOOLEAN, ok \in BOOLEAN :
       ChangeDimCapability(d, state, ok)

\* the devices while their lock state and dim ability are taken over
SpecReconcile == Init /\ [][NextReconcile]_vars

(* ------------------------------ claims -------------------------------- *)

Settled(c) == calls[c].pc \in { "done", "failed" }

\* C1: at most one accepted onoff invocation is in flight, and an onoff
\* invocation issued while another one was in flight is refused without a
\* cloud or radio call, so the overlapping pair makes one cloud call in all.
C1_OneSwitchInFlight ==
  /\ Cardinality(InFlightOf("onoff")) <= 1
  /\ \A c \in Calls : calls[c].kind = "onoff" =>
       \A b \in calls[c].overlap :
         /\ ~calls[c].accepted
         /\ calls[c].nBle = 0
         /\ calls[b].nCloud + calls[c].nCloud = 1

\* an onoff invocation was issued while another one was in flight and returned
C1_Witness ==
  \E c \in Calls : /\ calls[c].kind = "onoff"
                   /\ calls[c].overlap # {}
                   /\ \E b \in calls[c].overlap : InFlight(b)
                   /\ Settled(c)

\* C2 (as stated): at most one dim invocation is in flight, and a dim
\* invocation issued while another one was in flight never reaches setSwitch.
C2_OneDimInFlight ==
  /\ Cardinality(InFlightOf("dim")) <= 1
  /\ \A c \in Calls : calls[c].kind = "dim" /\ calls[c].overlap # {} =>
       ~calls[c].accepted /\ calls[c].nCloud = 0

\* C3: an accepted onoff invocation makes exactly one cloud call, first; the
\* radio path is entered once if that call failed and never if it succeeded or
\* is still pending, and no radio step is repeated.
C3_CloudThenOneRadio ==
  \A c \in Calls : calls[c].kind = "onoff" /\ calls[c].accepted =>
    /\ calls[c].nCloud = 1
    /\ calls[c].cloud \in { "pending", "ok", "failed" }
    /\ calls[c].cloud = "failed" => calls[c].nBle = 1
    /\ calls[c].cloud \in { "pending", "ok" } =>
         /\ calls[c].nBle = 0
         /\ calls[c].nKeys + calls[c].nFind + calls[c].nConnect + calls[c].nSetSwitch = 0
    /\ calls[c].nKeys <= 1 /\ calls[c].nFind <= 1
    /\ calls[c].nConnect <= 1 /\ calls[c].nSetSwitch <= 1

\* an onoff invocation whose cloud call failed has returned after its radio attempt
C3_Witness ==
  \E c \in Calls : /\ calls[c].kind = "onoff"
                   /\ calls[c].cloud = "failed"
                   /\ calls[c].nBle = 1
                   /\ Settled(c)

\* C4 (as stated): a token is set while its command is in flight and is clear
\* again once no command of its class is in flight, whatever step failed.
C4_TokensCleared ==
  /\ InFlightOf("onoff") # {} => activeConnection
  /\ InFlightOf("onoff") = {} => ~activeConnection
  /\ InFlightOf("dim") = {} => ~activeConnectionDim

\* C5: 0 gives 0% and off, a percentage strictly between 0 and 10 is sent as
\* 10% and on, 0.5 gives 50% and on, 1.0 gives 100% and on; setSwitch gets
\* exactly that percentage.
C5_DimConversion ==
  \A c \in Calls : calls[c].kind = "dim" /\ calls[c].accepted /\ InFlight(c) =>
    LET v == calls[c].frac
        p == calls[c].percentage
    IN /\ SameNumber(v, <<0, 1>>) => SameNumber(p, <<0, 1>>) /\ calls[c].forced = "off"
       /\ v[1] * 100 > 0 /\ v[1] * 100 < 10 * v[2] =>
            SameNumber(p, <<10, 1>>) /\ calls[c].forced = "on"
       /\ SameNumber(v, <<1, 2>>) => SameNumber(p, <<50, 1>>) /\ calls[c].forced = "on"
       /\ SameNumber(v, <<1, 1>>) => SameNumber(p, <<100, 1>>) /\ calls[c].forced = "on"
       /\ calls[c].pc = "awaitSetSwitch" => calls[c].cloudArg = p

\* setDim(0.05) has sent 10 to the cloud
C5_Witness ==
  \E c \in Calls : /\ calls[c].kind = "dim"
                   /\ calls[c].pc = "awaitSetSwitch"
                   /\ calls[c].frac = <<1, 20>>
                   /\ calls[c].cloudArg = <<10, 1>>

\* C6 (as stated): during a setDim invocation the on/off update precedes the
\* cloud call, and the device never shows a dim level above 0 while off nor a
\* dim level of 0 while on.
C6_NoMixedDimState ==
  \A c \in Calls : calls[c].kind = "dim" /\ calls[c].accepted /\ InFlight(c) =>
    LET d == calls[c].dev
    IN /\ calls[c].pc = "awaitSetOnoff" => calls[c].nCloud = 0
       /\ ~(GreaterThanInt(dim[d], 0) /\ ~onoff[d])
       /\ ~(SameNumber(dim[d], <<0, 1>>) /\ onoff[d])

\* the keys of the (single) sphere are complete on some device
SphereKeysObtained == \E d \in Devices : \A k \in KeyTypes : settings[d][k] = "key"

\* C7 (as stated): once the three keys of the sphere have been obtained, no
\* getKeys call of any device of the sphere fetches them from the cloud again.
C7_KeysFetchedOnce ==
  \A c \in Calls : calls[c].pc = "awaitKeys" => ~SphereKeysObtained

\* C8 (as stated): after a failed login synchronizeCloud starts neither
\* mirror.getAll nor mapper.mapAll nor updateDevices, and no cache changes.
C8_NoPassAfterFailedLogin ==
  syncLogin = "failed" => syncRan = {} /\ rawCache = 0 /\ fastCache = 0

\* C9: an enter-location presence event fires the trigger once and exactly
\* the cards whose room id and name both equal the event's pass; any other
\* event fires nothing.
C9_EnterFiresMatchingCards ==
  lastEvent.type # "none" =>
    IF lastEvent.type = "presence" /\ lastEvent.subType = "enterLocation"
      THEN /\ fired = 1
           /\ matched = { card \in Cards : /\ card.id = lastEvent.location.id
                                           /\ card.name = lastEvent.location.name }
      ELSE fired = 0 /\ matched = {}

\* an enter event for (A, Kitchen) passed that card and not the card (A, Hall)
C9_Witness ==
  /\ lastEvent.type = "presence" /\ lastEvent.subType = "enterLocation"
  /\ lastEvent.location = [ id |-> "A", name |-> "Kitchen" ]
  /\ fired = 1
  /\ [ id |-> "A", name |-> "Kitchen" ] \in matched
  /\ [ id |-> "A", name |-> "Hall" ] \in Cards \ matched

\* C10 (as stated): after an exit event the user's stored location is null.
C10_ExitClearsLocation ==
  lastRun.made /\ ~lastRun.enter => userLocation[lastRun.user] = NullLocation

\* C11: the user_is_in_room card answers true exactly when the last known
\* location of the user is the room of the card, by id and by name; it answers
\* false when no location was ever obtained and when the poll made for this
\* evaluation reports the user in no location.
C11_ConditionFollowsLocation ==
  \A p \in Polls : polls[p].pc = "done" =>
    /\ polls[p].result = "true" <=>
         /\ polls[p].used # Undefined
         /\ polls[p].used = polls[p].args
         /\ polls[p].seen # Nowhere
    /\ polls[p].used = Undefined => polls[p].result = "false"
    /\ polls[p].seen = Nowhere => polls[p].result = "false"

\* C12: the location held for the user never goes back to an older one: what
\* a poll writes is never older than what is held.
C12_PresenceMonotonic == [][storedChange' >= storedChange]_vars

\* C13: between two calls of sse.start there is a call of sse.stop, so at most
\* one started session of the sse-server exists, also when the handlers of two
\* changes of the settings overlap.
C13_OneStartedSession == openStarts <= 1

\* C14: a setSettings call whose login succeeded has run mirror.getAll() and
\* then mapper.mapAll().
C14_SettingsLoginRefreshes ==
  (setLogin = "ok" /\ setPc = "idle") => { "getAll", "mapAll" } \subseteq setRan

\* the platform carried out what the last call asked of it, if anything
Effective(apply) == apply.op # "none" /\ (apply.call = "none" \/ apply.ok)

C16_NotFoundEndsRadio ==
  \A c \in Calls : calls[c].adv = "null" =>
    calls[c].nConnect = 0 /\ calls[c].nSetSwitch = 0

\* C17: an invocation whose key fetch failed goes on to discovery and to the
\* connect and switch attempt: it is not ended and the keys are not fetched
\* a second time.
C17_KeyFailureAbsorbed ==
  \A c \in Calls : calls[c].keys = "failed" =>
    /\ calls[c].pc \in { "awaitFind", "awaitConnect", "awaitSetSwitchState",
                         "awaitControlDisconnect", "awaitDisconnect", "awaitSetDim" }
    /\ calls[c].nKeys <= 1
    /\ calls[c].nFind = 1
    /\ calls[c].pc # "awaitFind" => calls[c].nConnect = 1
    /\ calls[c].pc \in { "awaitSetSwitchState", "awaitControlDisconnect",
                         "awaitDisconnect" } => calls[c].nSetSwitch = 1

\* the keys request was rejected and the switch command is on its way
C17_Witness ==
  \E c \in Calls : /\ calls[c].keys = "failed"
                    /\ calls[c].nKeys = 1
                    /\ calls[c].pc = "awaitSetSwitchState"

\* C18: a dim invocation talks to the cloud only: it never fetches keys,
\* discovers, connects or switches over the radio.
C18_DimCloudOnly ==
  \A c \in Calls : calls[c].kind = "dim" =>
    /\ calls[c].pc \in { "awaitSetOnoff", "awaitSetSwitch", "done", "failed" }
    /\ calls[c].nBle = 0
    /\ calls[c].nKeys = 0
    /\ calls[c].nFind = 0
    /\ calls[c].nConnect = 0
    /\ calls[c].nSetSwitch = 0
    /\ calls[c].keys = "none"
    /\ calls[c].adv = "none"

\* the cloud refused the percentage and the invocation ended there
C18_Witness ==
  \E c \in Calls : /\ calls[c].kind = "dim"
                    /\ calls[c].pc = "failed"
                    /\ calls[c].cloud = "failed"
                    /\ calls[c].nCloud = 1

\* C19: an accepted onoff invocation that returns has, on a device with the
\* dim capability, set the dim level to 1 for on and to 0 for off, in its last
\* step, after the cloud call and any radio fallback have settled; on a device
\* without the capability it leaves the dim level alone; and nothing else
\* changes a dim level.
C19_DimMirrored ==
  [][ /\ \A c \in Calls :
           ( calls[c].kind = "onoff" /\ InFlight(c) /\ calls'[c].pc = "done" ) =>
             /\ capDim[calls[c].dev] =>
                   /\ calls[c].pc = "awaitSetDim"
                   /\ dim'[calls[c].dev] = IF calls[c].on THEN <<1, 1>> ELSE <<0, 1>>
             /\ ~capDim[calls[c].dev] => dim'[calls[c].dev] = dim[calls[c].dev]
             /\ \A e \in Devices \ { calls[c].dev } : dim'[e] = dim[e]
      /\ \A c \in Calls : calls'[c].pc = "awaitSetDim" =>
           /\ capDim[calls'[c].dev]
           /\ calls'[c].cloud \in { "ok", "failed" }
           /\ calls'[c].cloud = "failed" => calls'[c].nBle = 1
      /\ dim' # dim =>
           \E c \in Calls : calls[c].pc = "awaitSetDim" /\ calls'[c].pc = "done" ]_vars

\* a dimmable device was switched on and its dim level is 1
C19_Witness ==
  /\ \E d \in Devices : capDim[d] /\ dim[d] = <<1, 1>>
  /\ \E c \in Calls : /\ calls[c].kind = "onoff"
                       /\ calls[c].accepted
                       /\ calls[c].pc = "done"

\* C20: an invocation issued while the app is not logged in returns at once:
\* it makes no cloud and no radio call and leaves both tokens, the device
\* values and the switch state for the radio as they are.
C20_NoTransportLoggedOut ==
  [][ \A c \in Calls :
        ( calls[c].pc = "idle" /\ calls'[c].pc # "idle" /\ ~loggedIn ) =>
          /\ calls'[c].pc = "done"
          /\ ~calls'[c].accepted
          /\ calls'[c].nCloud = 0
          /\ calls'[c].nBle = 0
          /\ UNCHANGED << activeConnection, activeConnectionDim, onoff, dim,
                          bleState >> ]_vars

\* an onoff and a dim invocation were refused for want of a login
C20_Witness ==
  /\ ~loggedIn
  /\ \E c \in Calls : calls[c].kind = "onoff" /\ calls[c].pc = "done" /\ ~calls[c].accepted
  /\ \E c \in Calls : calls[c].kind = "dim" /\ calls[c].pc = "done" /\ ~calls[c].accepted

\* C21: with the app logged in, a dim invocation issued while an onoff
\* invocation is in flight is refused without a cloud call, and an onoff
\* invocation issued while a dim invocation is in flight and no onoff
\* invocation is, is accepted and makes its cloud call.
C21_AsymmetricInterplay ==
  [][ \A c \in DOMAIN calls :
        ( calls[c].pc = "idle" /\ calls'[c].pc # "idle" /\ loggedIn ) =>
          /\ ( calls'[c].kind = "dim" /\ InFlightOf("onoff") # {} ) =>
                ~calls'[c].accepted /\ calls'[c].nCloud = 0
          /\ ( /\ calls'[c].kind = "onoff"
               /\ InFlightOf("dim") # {}
               /\ InFlightOf("onoff") = {} ) =>
                calls'[c].accepted /\ calls'[c].nCloud = 1 ]_vars

====
